---- MODULE Spec2Model ----
(***************************************************************************)
(* tfmanager: the volume canonicalization engine (utils.copy_template),    *)
(* its tree walker (utils.glob_all) and its two callers in cli.py          *)
(* (sanitize, add).                                                        *)
(*                                                                         *)
(* A file system tree is a sequence of files in the order glob_all yields  *)
(* them.  A NIfTI file is its header fields and its stored voxels.  Voxel  *)
(* values are exact rationals <<n, d>> with d > 0; <<0, 0>> is NaN.        *)
(* An affine is kept symbolically: the obliquity of its linear block (in   *)
(* thousandths of a radian), the norm of its columns (zoom), whether its   *)
(* first axis is flipped w.r.t. RAS, a perturbation below the tolerance    *)
(* of numpy.allclose (eps), and the list of operations applied to its      *)
(* translation (off).                                                      *)
(*                                                                         *)
(* Three further state machines share the module, each with its own        *)
(* variables, initial predicate and next-state relation, the variables of  *)
(* the others being parked: the classification of a file name (SpecName),  *)
(* run_all / upload_all of io.py (SpecIO), and get_project_urls of osf.py  *)
(* (SpecOSF).  File names and output lines are sequences of characters.    *)
(***************************************************************************)
EXTENDS Integers, Sequences, FiniteSets, TLC

\* ---------------------------------------------------------------- bounds
MaxVox == 2      \* voxels per volume
MaxFiles == 3    \* files per tree in SpecTree and SpecFault
MaxPass == 2     \* invocations of a command on the same tree

\* ------------------------------------------------------ exact arithmetic
NaN == <<0, 0>>
IsNaN(v) == v[2] = 0

Abs(n) == IF n < 0 THEN -n ELSE n

RECURSIVE GCD(_, _)
GCD(a, b) == IF b = 0 THEN a ELSE GCD(b, a % b)

\* the rational n/d (d # 0) in lowest terms with a positive denominator
Frac(n, d) ==
    LET g == GCD(Abs(n), Abs(d))
        s == IF d < 0 THEN -1 ELSE 1
    IN  <<(s * n) \div g, (s * d) \div g>>

Whole(n) == <<n, 1>>
FLe(a, b) == a[1] * b[2] <= b[1] * a[2]
FLt(a, b) == a[1] * b[2] < b[1] * a[2]
FSub(a, b) ==
    IF IsNaN(a) \/ IsNaN(b) THEN NaN
    ELSE Frac(a[1] * b[2] - b[1] * a[2], a[2] * b[2])
FAdd(a, b) ==
    IF IsNaN(a) \/ IsNaN(b) THEN NaN
    ELSE Frac(a[1] * b[2] + b[1] * a[2], a[2] * b[2])
FMul(a, b) ==
    IF IsNaN(a) \/ IsNaN(b) THEN NaN
    ELSE Frac(a[1] * b[1], a[2] * b[2])

HasNaN(data) == \E i \in DOMAIN data : IsNaN(data[i])

\* numpy's ndarray.min / ndarray.max: NaN propagates
DataMin(data) ==
    IF HasNaN(data) THEN NaN
    ELSE CHOOSE v \in {data[i] : i \in DOMAIN data} :
             \A j \in DOMAIN data : FLe(v, data[j])
DataMax(data) ==
    IF HasNaN(data) THEN NaN
    ELSE CHOOSE v \in {data[i] : i \in DOMAIN data} :
             \A j \in DOMAIN data : FLe(data[j], v)

\* round-half-to-even of the rational n/d, d > 0 (numpy.round)
RoundHalfEven(n, d) ==
    LET q == n \div d
        r == n % d
    IN  IF 2 * r < d THEN q
        ELSE IF 2 * r > d THEN q + 1
        ELSE IF q % 2 = 0 THEN q ELSE q + 1

\* truncation toward zero of the rational n/d, d > 0 (C float -> int cast)
Trunc(v) ==
    IF v[1] >= 0 THEN v[1] \div v[2] ELSE -((-v[1]) \div v[2])

\* ------------------------------------------------------------- dtypes
DTypes == {"uint8", "int16", "float32"}
IsFloat(dt) == dt \in {"float32", "float64"}
UInt8Sup == 256
Int16Sup == 32768
Lo(dt) == IF dt = "uint8" THEN 0 ELSE -Int16Sup
Hi(dt) == IF dt = "uint8" THEN UInt8Sup - 1 ELSE Int16Sup - 1
Wrap(n, dt) ==
    IF dt = "uint8" THEN n % UInt8Sup
    ELSE ((n + Int16Sup) % (2 * Int16Sup)) - Int16Sup
Sat(n, dt) == IF n < Lo(dt) THEN Lo(dt) ELSE IF n > Hi(dt) THEN Hi(dt) ELSE n

\* What the C cast behind ndarray.astype stores.  Integer to integer wraps.
\* A float outside the target's range (or NaN) is undefined behaviour: the
\* build either keeps the low bits ("wrap") or saturates ("saturate").
Builds == {"wrap", "saturate"}

AsType(v, from, to, build) ==
    IF IsFloat(to) THEN v
    ELSE IF IsNaN(v) THEN Whole(0)
    ELSE LET t == Trunc(v)
         IN  IF Lo(to) <= t /\ t <= Hi(to) THEN Whole(t)
             ELSE IF ~IsFloat(from) \/ build = "wrap" THEN Whole(Wrap(t, to))
             ELSE Whole(Sat(t, to))

\* astype of +inf (sign 1), -inf (sign -1) or NaN (sign 0) to an integer type
AsTypeNonFinite(sign, to, build) ==
    IF IsFloat(to) THEN NaN
    ELSE IF build = "wrap" \/ sign = 0 THEN Whole(0)
    ELSE IF sign > 0 THEN Whole(Hi(to)) ELSE Whole(Lo(to))

\* --------------------------------------------------- numpy.percentile
RECURSIVE SortAsc(_)
SortAsc(data) ==
    IF Len(data) = 0 THEN << >>
    ELSE LET i == CHOOSE k \in DOMAIN data :
                      \A j \in DOMAIN data : FLe(data[k], data[j])
             rest == [j \in 1..(Len(data) - 1) |->
                          data[IF j < i THEN j ELSE j + 1]]
         IN  <<data[i]>> \o SortAsc(rest)

PercentileQ == 999   \* q = 99.9, in tenths of a percent

\* linear interpolation at position (n - 1) * q / 100 of the sorted data
Percentile(data) ==
    IF HasNaN(data) THEN NaN
    ELSE LET n == Len(data)
             s == SortAsc(data)
             pos == (n - 1) * PercentileQ
             k == pos \div 1000
             fr == Frac(pos % 1000, 1000)
         IN  IF k + 2 > n THEN s[k + 1]
             ELSE FAdd(s[k + 1], FMul(fr, FSub(s[k + 2], s[k + 1])))

NormTarget == 10000

\* np.round(1e4 * v / p).astype(dtype) for one voxel
NormalizeVoxel(v, p, dtype, build) ==
    IF IsNaN(v) \/ IsNaN(p) THEN AsTypeNonFinite(0, dtype, build)
    ELSE IF p[1] = 0
         THEN AsTypeNonFinite(IF v[1] > 0 THEN 1 ELSE IF v[1] < 0 THEN -1 ELSE 0,
                              dtype, build)
    ELSE LET q == Frac(NormTarget * v[1] * p[2], v[2] * p[1])
         IN  AsType(Whole(RoundHalfEven(q[1], q[2])), "float64", dtype, build)

\* data -= data.min(); data *= 1.0 / data.max()   (float32, in place)
RescaleUnit(fdata) ==
    LET mn == DataMin(fdata)
        shifted == [i \in DOMAIN fdata |-> FSub(fdata[i], mn)]
        mx == DataMax(shifted)
    IN  IF IsNaN(mx) \/ mx[1] = 0
        THEN [i \in DOMAIN fdata |-> NaN]     \* 0 * inf, or NaN * x
        ELSE [i \in DOMAIN fdata |-> Frac(shifted[i][1] * mx[2],
                                          shifted[i][2] * mx[1])]

\* ------------------------------------------------------------ affines
ObliquityThreshold == 10     \* 1e-2, in thousandths of a radian
TemplateCode == 4            \* NIfTI xform code "aligned to a template"

FlipOp == <<"flip", 0, 0, 0>>
BaseOp == <<"base", 0, 0, 0>>

MkAffine(rot, zoom, flip, eps, off) ==
    [rot |-> rot, zoom |-> zoom, flip |-> flip, eps |-> eps, off |-> off]

\* nb.affines.obliquity: the angle between the axes of the affine and the
\* cardinal axes
Obliquity(aff) == aff.rot

\* np.allclose(a, b): equality up to the perturbation eps
AllClose(a, b) ==
    /\ a.rot = b.rot
    /\ a.zoom = b.zoom
    /\ a.flip = b.flip
    /\ a.off = b.off

\* card = diag(zooms); cardrot = affine[:3, :3] . inv(card)
\* affine = inv(cardrot) . affine; affine[:3, :3] = card
Deoblique(aff, zooms) ==
    MkAffine(0, zooms, FALSE, 0,
             Append(aff.off, <<"unrot", aff.rot, aff.zoom, zooms>>))

\* ---------------------------------------------------------- the codec
\* Header.get_best_affine: sform if coded, else qform if coded, else the
\* affine built from pixdim alone (which nibabel flips along x)
BestAffine(f) ==
    IF f.scode # 0 THEN f.sform
    ELSE IF f.qcode # 0 THEN f.qform
    ELSE MkAffine(0, f.pixdim, TRUE, 0, <<BaseOp>>)

Reverse(seq) == [i \in DOMAIN seq |-> seq[Len(seq) + 1 - i]]

\* nb.as_closest_canonical(nb.load(filename)) and the reads that follow it:
\* an image whose first axis is flipped is reoriented, which gives it a new
\* affine, stored by the codec as sform (code 2) with the qform uncoded
Load(f, build) ==
    LET best == BestAffine(f)
        raw == IF f.slope = 1 THEN f.data
               ELSE [i \in DOMAIN f.data |-> FMul(Whole(f.slope), f.data[i])]
        scaled == IF best.flip THEN Reverse(raw) ELSE raw
        aff == IF best.flip
               THEN [best EXCEPT !.flip = FALSE, !.off = Append(@, FlipOp)]
               ELSE best
    IN  [affine |-> aff,
         fdata |-> scaled,
         data |-> [i \in DOMAIN scaled |->
                      AsType(scaled[i],
                             IF f.slope = 1 THEN f.dtype ELSE "float64",
                             f.dtype, build)],
         dtype |-> f.dtype,
         zooms |-> f.pixdim,
         scode |-> IF best.flip THEN 2 ELSE f.scode,
         sform |-> IF best.flip THEN aff ELSE f.sform,
         qcode |-> IF best.flip THEN 0 ELSE f.qcode,
         qform |-> IF best.flip THEN aff ELSE f.qform]

\* ------------------------------------------------- dtype/value policy
NormModalities == {"T1w", "T2w", "PD"}

InUInt8Range(data) ==
    \A i \in DOMAIN data :
        ~IsNaN(data[i]) /\ FLe(Whole(0), data[i]) /\ FLt(data[i], Whole(UInt8Sup))

\* faulty variant: the flag is tested before the mask rule
TargetDtype_FlagFirst(modality, data, data_dtype, force_dtype) ==
    IF ~force_dtype THEN data_dtype
    ELSE IF modality = "mask" THEN "uint8"
    ELSE IF modality = "dseg" /\ InUInt8Range(data) THEN "uint8"
    ELSE "int16"

\* faulty variant: the dseg rule consults the flag
TargetDtype_DsegGated(modality, data, data_dtype, force_dtype) ==
    IF modality = "mask" THEN "uint8"
    ELSE IF modality = "dseg" /\ force_dtype /\ InUInt8Range(data) THEN "uint8"
    ELSE IF ~force_dtype THEN data_dtype
    ELSE "int16"

TargetDtype(modality, data, data_dtype, force_dtype) ==
    IF modality = "mask" THEN "uint8"
    ELSE IF modality = "dseg" /\ InUInt8Range(data) THEN "uint8"
    ELSE IF ~force_dtype THEN data_dtype
    ELSE "int16"

IsProbseg(modality) == modality = "probseg"

\* faulty variant: normalization does not wait for a dtype change
NormalizeApplies_Always(modality, modified, normalize) ==
    /\ ~IsProbseg(modality)
    /\ normalize
    /\ modality \in NormModalities

NormalizeApplies(modality, modified, normalize) ==
    /\ ~IsProbseg(modality)
    /\ modified
    /\ normalize
    /\ modality \in NormModalities

\* faulty variant: the flag is not consulted
DeobliqueApplies_NoFlag(aff, deoblique) ==
    Obliquity(aff) > ObliquityThreshold

DeobliqueApplies(aff, deoblique) ==
    deoblique /\ Obliquity(aff) > ObliquityThreshold

\* faulty variant: the qform is not compared with the affine
NeedsRewrite_NoQform(modified, scode, qcode, sform, qform, affine) ==
    \/ modified
    \/ ~(scode = TemplateCode /\ qcode = TemplateCode)
    \/ scode = 0
    \/ ~AllClose(sform, affine)
    \/ qcode = 0

\* the condition of the if statement that guards the codec write
NeedsRewrite(modified, scode, qcode, sform, qform, affine) ==
    \/ modified
    \/ ~(scode = TemplateCode /\ qcode = TemplateCode)
    \/ scode = 0
    \/ ~AllClose(sform, affine)
    \/ qcode = 0
    \/ ~AllClose(qform, affine)

\* faulty variant: the qform code is set without its matrix
WriteNifti_KeepQform(f, data, from, dtype, affine, build) ==
    [f EXCEPT !.dtype = dtype,
              !.data = [i \in DOMAIN data |-> AsType(data[i], from, dtype, build)],
              !.scode = TemplateCode,
              !.sform = affine,
              !.qcode = TemplateCode,
              !.slope = 1,
              !.units = "mm"]

\* Nifti1Image(data.astype(dtype), affine, hdr), the four header setters and
\* to_filename
WriteNifti(f, data, from, dtype, affine, build) ==
    [f EXCEPT !.dtype = dtype,
              !.data = [i \in DOMAIN data |-> AsType(data[i], from, dtype, build)],
              !.scode = TemplateCode,
              !.sform = affine,
              !.qcode = TemplateCode,
              !.qform = affine,
              !.pixdim = affine.zoom,
              !.slope = 1,
              !.units = "mm"]

\* One iteration of the loop of copy_template over a NIfTI file: the values
\* of its local variables when it reaches the end of the body
Canonicalize(f, normalize, deoblique, force_dtype, build) ==
    LET im == Load(f, build)
        modality == f.modality
        dtype0 == TargetDtype(modality, im.data, im.dtype, force_dtype)
        differs == dtype0 # im.dtype
        norm == NormalizeApplies(modality, differs, normalize)
        dtype == IF IsProbseg(modality) THEN "float32" ELSE dtype0
        data == IF IsProbseg(modality) THEN RescaleUnit(im.fdata)
                ELSE IF norm
                THEN [i \in DOMAIN im.fdata |->
                         NormalizeVoxel(im.fdata[i], Percentile(im.data),
                                        dtype, build)]
                ELSE im.data
        from == IF IsProbseg(modality) THEN "float32"
                ELSE IF norm THEN dtype ELSE im.dtype
        obl == DeobliqueApplies(im.affine, deoblique)
        affine == IF obl THEN Deoblique(im.affine, im.zooms) ELSE im.affine
        modified == differs \/ IsProbseg(modality) \/ obl
        rewrite == NeedsRewrite(modified, im.scode, im.qcode, im.sform,
                                im.qform, affine)
    IN  [modality |-> modality,
         data_dtype |-> im.dtype,
         dtype |-> dtype,
         differs |-> differs,
         rescale |-> IF IsProbseg(modality) THEN "unit"
                     ELSE IF norm THEN "normalize" ELSE "none",
         percentile |-> Percentile(im.data),
         indata |-> im.data,
         fdata |-> im.fdata,
         data |-> data,
         deobliqued |-> obl,
         zooms |-> im.zooms,
         loaded |-> im.affine,
         affine |-> affine,
         scode |-> im.scode,
         qcode |-> im.qcode,
         sform |-> im.sform,
         qform |-> im.qform,
         modified |-> modified,
         rewrite |-> rewrite,
         nii |-> WriteNifti(f, data, from, dtype, affine, build)]

\* -------------------------------------------------------------- files
Modalities == {"T1w", "T2w", "PD", "mask", "dseg", "probseg", "bold"}
Vals == {-2, 0, 50, 300}

ValsOf(dt) == {v \in Vals : IsFloat(dt) \/ (Lo(dt) <= v /\ v <= Hi(dt))}

\* the stored voxels of a volume of type dt, up to the order of the voxels
Volumes(dt) ==
    {d \in UNION {[1..n -> {Whole(v) : v \in ValsOf(dt)}] : n \in 1..MaxVox} :
        \A i \in 1..(Len(d) - 1) : FLe(d[i], d[i + 1])}

Identity == MkAffine(0, 1, FALSE, 0, << >>)

MkFile(dot, nifti, modality, dtype, data, slope, scode, sform, qcode, qform, pixdim) ==
    [dot |-> dot, nifti |-> nifti, modality |-> modality, dtype |-> dtype,
     data |-> data, slope |-> slope, units |-> "unknown",
     scode |-> scode, sform |-> sform, qcode |-> qcode, qform |-> qform,
     pixdim |-> pixdim]

\* a file that is not a NIfTI volume (LICENSE, template_description.json)
Blob(dot) ==
    MkFile(dot, FALSE, "", "uint8", << >>, 1, 0, Identity, 0, Identity, 1)

\* volumes of every modality, type and content under two well-formed headers
DataFiles ==
    {MkFile(FALSE, TRUE, m, dt, d, sl, TemplateCode, MkAffine(r, 1, FALSE, 0, << >>),
            TemplateCode, MkAffine(r, 1, FALSE, 1, << >>), 1) :
        m \in Modalities, dt \in DTypes, d \in UNION {Volumes(t) : t \in DTypes},
        sl \in {1, 2}, r \in {0, 50}}

WellTyped(f) == f.nifti => f.data \in Volumes(f.dtype)

\* headers of every kind around three volumes
HeaderFiles ==
    {MkFile(FALSE, TRUE, md[1], md[2], <<Whole(0), Whole(50)>>, 1,
            sc, MkAffine(sr, 1, fl, 0, << >>),
            qc, MkAffine(qr, px, fl, 1, << >>), px) :
        md \in {<<"mask", "uint8">>, <<"mask", "int16">>, <<"T1w", "int16">>},
        sc \in {0, 2, TemplateCode}, sr \in {0, 5, 50},
        qc \in {0, TemplateCode}, qr \in {0, 50},
        px \in {1, 2}, fl \in BOOLEAN}

\* volumes whose header holds a zero voxel size along the first axis
SingularFiles ==
    {MkFile(FALSE, TRUE, md[1], md[2], <<Whole(0), Whole(50)>>, 1,
            sc, MkAffine(sr, 1, FALSE, 0, << >>),
            qc, MkAffine(0, 0, FALSE, 1, << >>), 0) :
        md \in {<<"mask", "uint8">>, <<"T1w", "int16">>},
        sc \in {2, TemplateCode}, sr \in {0, 5, 50}, qc \in {0, TemplateCode}}

Files ==
    {f \in DataFiles : WellTyped(f)} \cup HeaderFiles \cup SingularFiles
        \cup {Blob(FALSE)}

\* a small catalogue for trees of several files
Catalogue ==
    {Blob(FALSE), Blob(TRUE),
     MkFile(FALSE, TRUE, "mask", "uint8", <<Whole(0), Whole(50)>>, 1,
            TemplateCode, Identity, TemplateCode, Identity, 1),
     MkFile(FALSE, TRUE, "T1w", "float32", <<Whole(50), Whole(300)>>, 1,
            TemplateCode, Identity, TemplateCode, Identity, 1),
     MkFile(FALSE, TRUE, "probseg", "float32", <<Whole(-2), Whole(50)>>, 1,
            TemplateCode, Identity, TemplateCode, Identity, 1),
     MkFile(FALSE, TRUE, "dseg", "int16", <<Whole(0), Whole(300)>>, 1,
            2, MkAffine(50, 2, FALSE, 0, << >>), 0, Identity, 0)}

Trees == UNION {[1..n -> Catalogue] : n \in 0..MaxFiles}

\* three files for trees in which one step on one file fails
FaultCatalogue ==
    {Blob(FALSE),
     MkFile(FALSE, TRUE, "mask", "uint8", <<Whole(0), Whole(50)>>, 1,
            TemplateCode, Identity, TemplateCode, Identity, 1),
     MkFile(FALSE, TRUE, "T1w", "int16", <<Whole(0), Whole(50)>>, 1,
            2, MkAffine(50, 1, FALSE, 0, << >>), 0, Identity, 0)}

FaultTrees == UNION {[1..n -> FaultCatalogue] : n \in 1..MaxFiles}

\* what the environment does to a file: nothing, a content nb.load cannot
\* decode, or a destination that cannot be written
Faults == {"none", "decode", "write"}

NoFault(tree) == [i \in DOMAIN tree |-> "none"]

\* at most one file of the tree is hit
SingleFaults(tree) ==
    {NoFault(tree)} \cup
    {[NoFault(tree) EXCEPT ![i] = k] : i \in DOMAIN tree, k \in Faults \ {"none"}}

\* -------------------------------------------------------------- names
MaxName == 4

\* the characters of a file name that matter to line 34-41: a lower-case and
\* an upper-case letter, the entity separator and the dot
NameChars == {"a", "B", "_", "."}

DotNii == <<".", "n", "i", "i">>
DotNiiGz == <<".", "n", "i", "i", ".", "g", "z">>
DotJson == <<".", "j", "s", "o", "n">>

\* the names glob_all yields: none starts with a dot
Names ==
    {b \o e : b \in {x \in UNION {[1..n -> NameChars] : n \in 1..MaxName} :
                        x[1] # "."},
              e \in {DotNii, DotNiiGz, DotJson}}

\* str.endswith
EndsWith(s, e) ==
    Len(s) >= Len(e) /\ SubSeq(s, Len(s) - Len(e) + 1, Len(s)) = e

\* filename.name.endswith((".nii", ".nii.gz"))
IsNiftiName(name) == EndsWith(name, DotNii) \/ EndsWith(name, DotNiiGz)

\* str.lstrip(ch)
RECURSIVE LStrip(_, _)
LStrip(s, ch) ==
    IF s # << >> /\ Head(s) = ch THEN LStrip(Tail(s), ch) ELSE s

\* str.split(ch): the segments between the occurrences of ch, empty ones kept
RECURSIVE Split(_, _)
Split(s, ch) ==
    IF \A i \in DOMAIN s : s[i] # ch THEN <<s>>
    ELSE LET i == CHOOSE k \in DOMAIN s :
                      s[k] = ch /\ \A j \in 1..(k - 1) : s[j] # ch
         IN  <<SubSeq(s, 1, i - 1)>> \o Split(SubSeq(s, i + 1, Len(s)), ch)

\* "".join(parts)
RECURSIVE Join(_)
Join(parts) ==
    IF parts = << >> THEN << >> ELSE Head(parts) \o Join(Tail(parts))

\* PurePath.suffixes: nothing for a name ending in a dot, else every
\* dot-led piece after the first dot of the name without its leading dots
Suffixes(name) ==
    IF EndsWith(name, <<".">>) THEN << >>
    ELSE LET pieces == Tail(Split(LStrip(name, "."), "."))
         IN  [i \in DOMAIN pieces |-> <<".">> \o pieces[i]]

\* s[:-n]; -0 is 0, so the slice is empty when n = 0
DropLast(s, n) ==
    IF n = 0 \/ n >= Len(s) THEN << >> ELSE SubSeq(s, 1, Len(s) - n)

\* stem = filename.name[: -len("".join(filename.suffixes))]
Stem(name) == DropLast(name, Len(Join(Suffixes(name))))

\* stem.split("_")[-1]
LastSegment(s) == LET parts == Split(s, "_") IN parts[Len(parts)]

\* -------------------------------------------------------------- state
VARIABLES
    cmd,          \* the entry point: "sanitize", "add", or "copy_template"
    opt,          \* the options given on the command line / the arguments
    src,          \* the tree at `path`, in the order glob_all walks it
    dst,          \* the tree at `dest` when dest # path: {} or {file} per entry
    pc,           \* "idle": no call running; "loop": inside copy_template;
                  \* "raised": the call ended in an exception
    pass,         \* invocations started so far
    normalize, deoblique, force_dtype,   \* parameters of copy_template
    inplace,      \* dest == path
    todo,         \* what glob_all(path) yields: indices into src
    idx,          \* position of the loop in todo
    retval,       \* the list copy_template builds
    out,          \* lines printed by copy_template
    ops,          \* file operations done: <<"write" | "copy", index>>
    dec,          \* locals of the latest iteration over a NIfTI file
    report,       \* what the latest call returned
    fault         \* per entry of src: what fails on it, "none" when nothing

tplVars == <<cmd, opt, src, dst, pc, pass, normalize, deoblique, force_dtype,
             inplace, todo, idx, retval, out, ops, dec, report, fault>>

\* the classification of one file name (lines 34-41 of utils.py)
VARIABLES
    filename,     \* filename.name, one character per element
    named,        \* "pending", then "nifti" or "other": the branch of line 34
    stem,         \* the local `stem`
    suffix        \* the local `modality`

nameVars == <<filename, named, stem, suffix>>

\* one run of run_all or upload_all (io.py)
VARIABLES
    cmd_list,     \* per command what the shell will give: returncode, stderr
    max_runners,  \* the parameter max_runners
    semaphore,    \* the value of asyncio.Semaphore(max_runners)
    fs,           \* per command the position of its run_command_on_loop
    starts,       \* per command how many times the shell was given it
    running       \* "idle", "loop", then "completed" or "raised"

ioVars == <<cmd_list, max_runners, semaphore, fs, starts, running>>

\* one call of get_project_urls (osf.py)
VARIABLES
    has_template, \* whether a folder of the project bears the name template_id
    listing,      \* what _osf_get gives below template_url, to any depth
    frames,       \* the loops under way: the one of get_project_urls, then
                  \* one per folder entered, each with the list it passes on
    lists,        \* the list objects created so far, by identity
    hits,         \* the local `hits`
    urls,         \* the string returned
    walk          \* "idle", "walk", then "done" or "raised"

osfVars == <<has_template, listing, frames, lists, hits, urls, walk>>

restVars == <<nameVars, ioVars, osfVars>>

vars == <<tplVars, restVars>>

NameIdle ==
    /\ filename = << >>
    /\ named = "none"
    /\ stem = << >>
    /\ suffix = << >>

IoIdle ==
    /\ cmd_list = << >>
    /\ max_runners = 1
    /\ semaphore = 0
    /\ fs = << >>
    /\ starts = << >>
    /\ running = "none"

OsfIdle ==
    /\ has_template = FALSE
    /\ listing = << >>
    /\ frames = << >>
    /\ lists = << >>
    /\ hits = << >>
    /\ urls = << >>
    /\ walk = "none"

\* defaults of the signature of copy_template, and the dest that add gives
DefaultFlags ==
    [normalize |-> FALSE, deoblique |-> TRUE, force_dtype |-> TRUE,
     dest |-> "other"]

\* what each entry point lets its caller choose; dest "path" stands for a
\* dest that is None or equal to path
Options(c) ==
    IF c = "add" THEN {DefaultFlags}
    ELSE [normalize : BOOLEAN, force_dtype : BOOLEAN, deoblique : BOOLEAN,
          dest : IF c = "sanitize" THEN {"path"} ELSE {"path", "other"}]

NoDecision == [file |-> 0, io |-> "none"]

Absent(tree) == [i \in DOMAIN tree |-> {}]

InitWith(trees) ==
    /\ cmd \in {"sanitize", "add", "copy_template"}
    /\ opt \in Options(cmd)
    /\ src \in trees
    /\ dst = Absent(src)
    /\ pc = "idle"
    /\ pass = 0
    /\ normalize = FALSE
    /\ deoblique = FALSE
    /\ force_dtype = FALSE
    /\ inplace = FALSE
    /\ todo = << >>
    /\ idx = 1
    /\ retval = << >>
    /\ out = << >>
    /\ ops = << >>
    /\ dec = NoDecision
    /\ report = << >>
    /\ fault = NoFault(src)
    /\ NameIdle
    /\ IoIdle
    /\ OsfIdle

Init == InitWith({<<f>> : f \in Files})
InitTree == InitWith(Trees)

\* trees in which the environment makes one step on one file fail
InitFault ==
    /\ cmd \in {"sanitize", "add", "copy_template"}
    /\ opt \in Options(cmd)
    /\ src \in FaultTrees
    /\ fault \in SingleFaults(src)
    /\ dst = Absent(src)
    /\ pc = "idle"
    /\ pass = 0
    /\ normalize = FALSE
    /\ deoblique = FALSE
    /\ force_dtype = FALSE
    /\ inplace = FALSE
    /\ todo = << >>
    /\ idx = 1
    /\ retval = << >>
    /\ out = << >>
    /\ ops = << >>
    /\ dec = NoDecision
    /\ report = << >>
    /\ NameIdle
    /\ IoIdle
    /\ OsfIdle

\* ------------------------------------------------------------ actions
RECURSIVE GlobFrom(_, _)
GlobFrom(tree, i) ==
    IF i > Len(tree) THEN << >>
    ELSE IF tree[i].dot THEN GlobFrom(tree, i + 1)
    ELSE <<i>> \o GlobFrom(tree, i + 1)

\* glob_all(path): every file below path but those under a dot name
GlobAll(tree) == GlobFrom(tree, 1)

\* copy_template(path, normalize, deoblique, force_dtype, dest): the
\* parameters in the order of the signature, and the prologue of the body
Enter(p_normalize, p_deoblique, p_force_dtype, samedest) ==
    /\ pc = "idle"
    /\ pass < MaxPass
    /\ pass' = pass + 1
    /\ normalize' = p_normalize
    /\ deoblique' = p_deoblique
    /\ force_dtype' = p_force_dtype
    /\ inplace' = samedest
    /\ todo' = GlobAll(src)
    /\ idx' = 1
    /\ retval' = << >>
    /\ out' = << >>
    /\ ops' = << >>
    /\ dec' = NoDecision
    /\ pc' = "loop"
    /\ UNCHANGED <<cmd, opt, src, report, fault, restVars>>

\* cli.sanitize: _copy_template(template_dir, normalize, force_dtype, deoblique)
Sanitize ==
    /\ cmd = "sanitize"
    /\ Enter(opt.normalize, opt.force_dtype, opt.deoblique, TRUE)
    /\ UNCHANGED dst

\* cli.add: copy_template(path=path, dest=repodir / f"tpl-{template_id}"),
\* repodir being a fresh temporary directory
Add ==
    /\ cmd = "add"
    /\ Enter(DefaultFlags.normalize, DefaultFlags.deoblique,
             DefaultFlags.force_dtype, FALSE)
    /\ dst' = Absent(src)

\* a call of copy_template with keyword arguments
CopyTemplate ==
    /\ cmd = "copy_template"
    /\ Enter(opt.normalize, opt.deoblique, opt.force_dtype, opt.dest = "path")
    /\ UNCHANGED dst

\* faulty variant: verbatim copies are appended too
Reported_AnyIO(io) == io # "none"

\* retval.append(filename) happens on the codec-write branch only
Reported(io) == io = "write"

\* which of the three branches the loop body ends in
Branch(rewrite, samefile) ==
    IF rewrite THEN "write" ELSE IF ~samefile THEN "copy" ELSE "none"

Message(io) ==
    IF io = "write" THEN "Fixed NIfTI headers"
    ELSE IF io = "copy" THEN "Copied" ELSE "not modified"

\* nb.load(filename) raises on a content it cannot decode
LoadFails(flt) == flt = "decode"

\* np.linalg.inv(card) raises LinAlgError when a voxel size is zero; card is
\* only built inside the deoblique branch
Singular(f, p_deoblique) ==
    /\ f.pixdim = 0
    /\ DeobliqueApplies(Load(f, "wrap").affine, p_deoblique)

\* nii.to_filename(destname) and shutil.copy(filename, destname) raise when
\* the destination cannot be written
WriteFails(flt, io) == flt = "write" /\ io # "none"

ProcessNifti ==
    /\ pc = "loop"
    /\ idx <= Len(todo)
    /\ src[todo[idx]].nifti
    /\ ~LoadFails(fault[todo[idx]])
    /\ ~Singular(src[todo[idx]], deoblique)
    /\ \E build \in Builds :
       \E d \in {Canonicalize(src[todo[idx]], normalize, deoblique, force_dtype, build)} :
         LET i == todo[idx]
             f == src[i]
             io == Branch(d.rewrite, inplace)
         IN  /\ ~WriteFails(fault[i], io)
             /\ dec' = [file |-> i, io |-> io] @@ d
             /\ src' = IF io = "write" /\ inplace
                       THEN [src EXCEPT ![i] = d.nii] ELSE src
             /\ dst' = IF inplace \/ io = "none" THEN dst
                       ELSE [dst EXCEPT ![i] = {IF io = "write" THEN d.nii ELSE f}]
             /\ retval' = IF Reported(io) THEN Append(retval, i) ELSE retval
             /\ ops' = IF io = "none" THEN ops ELSE Append(ops, <<io, i>>)
             /\ out' = Append(out, <<Message(io), i>>)
    /\ idx' = idx + 1
    /\ UNCHANGED <<cmd, opt, pc, pass, normalize, deoblique, force_dtype,
                   inplace, todo, report, fault, restVars>>

\* the branch for files that are not NIfTI: shutil.copy, SameFileError suppressed
CopyOther ==
    /\ pc = "loop"
    /\ idx <= Len(todo)
    /\ ~src[todo[idx]].nifti
    /\ ~WriteFails(fault[todo[idx]], IF inplace THEN "none" ELSE "copy")
    /\ LET i == todo[idx]
       IN  /\ dst' = IF inplace THEN dst ELSE [dst EXCEPT ![i] = {src[i]}]
           /\ ops' = IF inplace THEN ops ELSE Append(ops, <<"copy", i>>)
           /\ out' = Append(out, <<"Copied", i>>)
    /\ idx' = idx + 1
    /\ UNCHANGED <<cmd, opt, src, pc, pass, normalize, deoblique, force_dtype,
                   inplace, todo, retval, dec, report, fault, restVars>>

\* return retval
Return ==
    /\ pc = "loop"
    /\ idx > Len(todo)
    /\ pc' = "idle"
    /\ report' = retval
    /\ UNCHANGED <<cmd, opt, src, dst, pass, normalize, deoblique, force_dtype,
                   inplace, todo, idx, retval, out, ops, dec, fault, restVars>>

\* an exception raised inside the loop body: copy_template holds no handler,
\* so the exception leaves the loop and the call, and nothing is returned
Raise ==
    /\ pc = "loop"
    /\ idx <= Len(todo)
    /\ LET i == todo[idx]
           f == src[i]
       IN  IF ~f.nifti
           THEN WriteFails(fault[i], IF inplace THEN "none" ELSE "copy")
           ELSE \/ LoadFails(fault[i])
                \/ Singular(f, deoblique)
                \/ /\ fault[i] = "write"
                   /\ ~Singular(f, deoblique)
                   /\ \E build \in Builds :
                        WriteFails(fault[i],
                            Branch(Canonicalize(f, normalize, deoblique,
                                                force_dtype, build).rewrite,
                                   inplace))
    /\ pc' = "raised"
    /\ UNCHANGED <<cmd, opt, src, dst, pass, normalize, deoblique, force_dtype,
                   inplace, todo, idx, retval, out, ops, dec, report, fault, restVars>>

Next ==
    \/ Sanitize
    \/ Add
    \/ CopyTemplate
    \/ ProcessNifti
    \/ CopyOther
    \/ Return
    \/ Raise

Spec == Init /\ [][Next]_vars
SpecTree == InitTree /\ [][Next]_vars
SpecFault == InitFault /\ [][Next]_vars

\* ------------------------------------------------------ names: actions
TplIdle ==
    /\ cmd = "none"
    /\ opt = DefaultFlags
    /\ src = << >>
    /\ dst = << >>
    /\ pc = "none"
    /\ pass = 0
    /\ normalize = FALSE
    /\ deoblique = FALSE
    /\ force_dtype = FALSE
    /\ inplace = FALSE
    /\ todo = << >>
    /\ idx = 1
    /\ retval = << >>
    /\ out = << >>
    /\ ops = << >>
    /\ dec = NoDecision
    /\ report = << >>
    /\ fault = << >>

InitName ==
    /\ filename \in Names
    /\ named = "pending"
    /\ stem = << >>
    /\ suffix = << >>
    /\ TplIdle
    /\ IoIdle
    /\ OsfIdle

\* lines 34-38: a name that is not NIfTI is copied and the loop continues
NameOther ==
    /\ named = "pending"
    /\ ~IsNiftiName(filename)
    /\ named' = "other"
    /\ UNCHANGED <<filename, stem, suffix, tplVars, ioVars, osfVars>>

\* lines 40-41
NameNifti ==
    /\ named = "pending"
    /\ IsNiftiName(filename)
    /\ stem' = Stem(filename)
    /\ suffix' = LastSegment(stem')
    /\ named' = "nifti"
    /\ UNCHANGED <<filename, tplVars, ioVars, osfVars>>

NextName == NameOther \/ NameNifti

SpecName == InitName /\ [][NextName]_vars

\* --------------------------------------------------------- io: run_all
MaxCmds == 3
MaxRunners == 2

\* what subprocess.run gives for a command: its return code, and whether the
\* bytes it wrote to stderr are valid UTF-8
Outcomes == [returncode : {0, 1}, utf8 : BOOLEAN]

CmdLists == UNION {[1..n -> Outcomes] : n \in 0..MaxCmds}

InitIO ==
    /\ cmd_list \in CmdLists
    /\ max_runners \in 1..MaxRunners
    /\ semaphore = 0
    /\ fs = << >>
    /\ starts = << >>
    /\ running = "idle"
    /\ TplIdle
    /\ NameIdle
    /\ OsfIdle

\* semaphore = asyncio.Semaphore(max_runners); one coroutine per command,
\* all of them scheduled by asyncio.as_completed(fs)
Schedule ==
    /\ running = "idle"
    /\ semaphore' = max_runners
    /\ fs' = [t \in DOMAIN cmd_list |-> "created"]
    /\ starts' = [t \in DOMAIN cmd_list |-> 0]
    /\ running' = "loop"
    /\ UNCHANGED <<cmd_list, max_runners, tplVars, nameVars, osfVars>>

\* run_all(cmd_list, env, cwd, max_runners)
RunAll == Schedule

\* upload_all(osf_cmd, osf_env, path, max_runners): one command per file
\* of glob_all(path)
UploadAll == Schedule

\* Semaphore.acquire: self._value -= 1
Acquired(value) == value - 1

\* with (yield from semaphore): ... loop.run_in_executor(None, runner); the
\* default executor holds more threads than the lists here have commands, so
\* the command starts when it is submitted
Acquire(t) ==
    /\ running = "loop"
    /\ fs[t] = "created"
    /\ semaphore > 0
    /\ semaphore' = Acquired(semaphore)
    /\ fs' = [fs EXCEPT ![t] = "executing"]
    /\ starts' = [starts EXCEPT ![t] = @ + 1]
    /\ UNCHANGED <<cmd_list, max_runners, running, tplVars, nameVars, osfVars>>

\* run_command in its thread: subprocess.run returns proc; a thread goes on
\* whatever the event loop does
Exit(t) ==
    /\ running \in {"loop", "raised"}
    /\ fs[t] = "executing"
    /\ fs' = [fs EXCEPT ![t] = "exited"]
    /\ UNCHANGED <<cmd_list, max_runners, semaphore, starts, running,
                   tplVars, nameVars, osfVars>>

\* proc.stderr.decode() is reached for a non-zero return code only, and
\* raises UnicodeDecodeError on bytes that are not UTF-8
DecodeRaises(o) == o.returncode # 0 /\ ~o.utf8

\* lines 70-83, resumed by the event loop with proc; leaving the with block
\* releases the slot, by return or by exception
Report(t) ==
    /\ running = "loop"
    /\ fs[t] = "exited"
    /\ semaphore' = semaphore + 1
    /\ fs' = [fs EXCEPT ![t] = IF DecodeRaises(cmd_list[t])
                               THEN "raised" ELSE "returned"]
    /\ UNCHANGED <<cmd_list, max_runners, starts, running, tplVars, nameVars, osfVars>>

\* for f in asyncio.as_completed(fs): yield from f, every f having returned
Complete ==
    /\ running = "loop"
    /\ \A t \in DOMAIN fs : fs[t] = "returned"
    /\ running' = "completed"
    /\ UNCHANGED <<cmd_list, max_runners, semaphore, fs, starts,
                   tplVars, nameVars, osfVars>>

\* yield from f on an f that raised: the exception leaves run_all and
\* loop.run_until_complete, and the event loop stops
Propagate ==
    /\ running = "loop"
    /\ \E t \in DOMAIN fs : fs[t] = "raised"
    /\ running' = "raised"
    /\ UNCHANGED <<cmd_list, max_runners, semaphore, fs, starts,
                   tplVars, nameVars, osfVars>>

NextIO ==
    \/ RunAll
    \/ UploadAll
    \/ \E t \in DOMAIN fs : Acquire(t)
    \/ \E t \in DOMAIN fs : Exit(t)
    \/ \E t \in DOMAIN fs : Report(t)
    \/ Complete
    \/ Propagate

SpecIO == InitIO /\ [][NextIO]_vars

\* ---------------------------------------------- osf: get_project_urls
MaxDepth == 2
MaxKids == 2

DotGii == <<".", "g", "i", "i">>

OSF_EXTENSIONS == {DotNii, DotNiiGz, DotGii}

FolderNames == {<<"F">>, <<"G">>}
FileNames == {<<"x">> \o DotNii, <<"y", ".", "t", "x", "t">>}

\* an entry of the JSON listing: attributes.kind, attributes.name,
\* links.download, and for a folder what _osf_get(links.move) gives
FileObjects ==
    {[kind |-> "file", name |-> n, download |-> <<"u">>, sub |-> << >>] :
        n \in FileNames}

\* the entries of one folder, no two under the same name
Kids(objs) ==
    {k \in UNION {[1..n -> objs] : n \in 0..MaxKids} :
        \A i, j \in DOMAIN k : i # j => k[i].name # k[j].name}

RECURSIVE Objects(_)
Objects(depth) ==
    FileObjects \cup
    IF depth = 0 THEN {}
    ELSE {[kind |-> "folder", name |-> n, download |-> << >>, sub |-> k] :
             n \in FolderNames, k \in Kids(Objects(depth - 1))}

Listings == Kids(Objects(MaxDepth))

\* the code points of the characters of a line of the output
Ord ==
    [c \in {",", ".", "/", "F", "G", "g", "i", "n", "t", "u", "x", "y", "z"} |->
        CASE c = "," -> 44 [] c = "." -> 46 [] c = "/" -> 47
          [] c = "F" -> 70 [] c = "G" -> 71 [] c = "g" -> 103
          [] c = "i" -> 105 [] c = "n" -> 110 [] c = "t" -> 116
          [] c = "u" -> 117 [] c = "x" -> 120 [] c = "y" -> 121
          [] c = "z" -> 122]

\* a <= b for str
RECURSIVE StrLe(_, _)
StrLe(a, b) ==
    IF a = << >> THEN TRUE
    ELSE IF b = << >> THEN FALSE
    ELSE IF Ord[Head(a)] # Ord[Head(b)] THEN Ord[Head(a)] < Ord[Head(b)]
    ELSE StrLe(Tail(a), Tail(b))

\* sorted(lines)
RECURSIVE Sorted(_)
Sorted(lines) ==
    IF lines = << >> THEN << >>
    ELSE LET i == CHOOSE k \in DOMAIN lines :
                      \A j \in DOMAIN lines : StrLe(lines[k], lines[j])
         IN  <<lines[i]>> \o
             Sorted(SubSeq(lines, 1, i - 1) \o SubSeq(lines, i + 1, Len(lines)))

\* sep.join(parts)
RECURSIVE JoinWith(_, _)
JoinWith(parts, sep) ==
    IF parts = << >> THEN << >>
    ELSE IF Len(parts) = 1 THEN parts[1]
    ELSE parts[1] \o <<sep>> \o JoinWith(Tail(parts), sep)

\* ",".join(("/".join(parents + [name]), download))
Line(parents, obj) ==
    JoinWith(<<JoinWith(Append(parents, obj.name), "/"), obj.download>>, ",")

\* kind == "file" and name.endswith(OSF_EXTENSIONS)
IsListed(obj) ==
    obj.kind = "file" /\ \E e \in OSF_EXTENSIONS : EndsWith(obj.name, e)

InitOSF ==
    /\ has_template \in BOOLEAN
    /\ listing \in IF has_template THEN Listings ELSE {<< >>}
    /\ frames = << >>
    /\ lists = << >>
    /\ hits = << >>
    /\ urls = << >>
    /\ walk = "idle"
    /\ TplIdle
    /\ NameIdle
    /\ IoIdle

\* get_project_urls up to `hits = []`; the loop over _osf_get(template_url)
\* calls _osf_getpath(p) with parents left to its default, None (here 0)
GetProjectUrls ==
    /\ walk = "idle"
    /\ has_template
    /\ frames' = <<[parents |-> 0, rest |-> listing]>>
    /\ hits' = << >>
    /\ walk' = "walk"
    /\ UNCHANGED <<has_template, listing, lists, urls, tplVars, nameVars, ioVars>>

\* the else of the for loop: raise RuntimeError(Template not found)
NotFound ==
    /\ walk = "idle"
    /\ ~has_template
    /\ walk' = "raised"
    /\ UNCHANGED <<has_template, listing, frames, lists, hits, urls,
                   tplVars, nameVars, ioVars>>

\* parents = parents or []: the list object the body works on is the one
\* passed when that one is not empty, and a new empty list otherwise
Parents(passed) ==
    IF passed # 0 /\ lists[passed] # << >> THEN passed ELSE Len(lists) + 1

Bound(passed) ==
    IF Parents(passed) > Len(lists) THEN Append(lists, << >>) ELSE lists

\* the loop on top of frames, moved past its current entry
Advanced ==
    [frames EXCEPT ![Len(frames)].rest = Tail(@)]

\* the entry the innermost loop hands to _osf_getpath
AtObject ==
    /\ walk = "walk"
    /\ frames[Len(frames)].rest # << >>

\* _osf_getpath on a file with a listed extension: one line is yielded
YieldFile ==
    /\ AtObject
    /\ LET top == frames[Len(frames)]
           obj == Head(top.rest)
       IN  /\ IsListed(obj)
           /\ lists' = Bound(top.parents)
           /\ hits' = Append(hits, Line(lists'[Parents(top.parents)], obj))
    /\ frames' = Advanced
    /\ UNCHANGED <<has_template, listing, urls, walk, tplVars, nameVars, ioVars>>

\* _osf_getpath on a file of another extension: neither branch is taken
SkipFile ==
    /\ AtObject
    /\ LET top == frames[Len(frames)]
           obj == Head(top.rest)
       IN  /\ obj.kind = "file"
           /\ ~IsListed(obj)
           /\ lists' = Bound(top.parents)
    /\ frames' = Advanced
    /\ UNCHANGED <<has_template, listing, hits, urls, walk,
                   tplVars, nameVars, ioVars>>

\* _osf_getpath on a folder: parents += [name] extends the list object in
\* place, and the loop over subdata passes that object on
EnterFolder ==
    /\ AtObject
    /\ LET top == frames[Len(frames)]
           obj == Head(top.rest)
           ref == Parents(top.parents)
       IN  /\ obj.kind = "folder"
           /\ lists' = [Bound(top.parents) EXCEPT ![ref] = Append(@, obj.name)]
           /\ frames' = Append(Advanced, [parents |-> ref, rest |-> obj.sub])
    /\ UNCHANGED <<has_template, listing, hits, urls, walk,
                   tplVars, nameVars, ioVars>>

\* the loop over subdata is exhausted: _osf_getpath returns to its caller
LeaveFolder ==
    /\ walk = "walk"
    /\ Len(frames) > 1
    /\ frames[Len(frames)].rest = << >>
    /\ frames' = SubSeq(frames, 1, Len(frames) - 1)
    /\ UNCHANGED <<has_template, listing, lists, hits, urls, walk,
                   tplVars, nameVars, ioVars>>

Header == <<"n", "a", "m", "e", ",", "l", "i", "n", "k">>

\* return "\n".join(["name,link"] + sorted(hits))
ReturnUrls ==
    /\ walk = "walk"
    /\ Len(frames) = 1
    /\ frames[1].rest = << >>
    /\ urls' = JoinWith(<<Header>> \o Sorted(hits), "\n")
    /\ walk' = "done"
    /\ UNCHANGED <<has_template, listing, frames, lists, hits,
                   tplVars, nameVars, ioVars>>

NextOSF ==
    \/ GetProjectUrls
    \/ NotFound
    \/ YieldFile
    \/ SkipFile
    \/ EnterFolder
    \/ LeaveFolder
    \/ ReturnUrls

SpecOSF == InitOSF /\ [][NextOSF]_vars

\* -------------------------------------------------------------- claims
\* the file at the destination of entry i once the loop has passed it
Out(i) == IF inplace THEN src[i] ELSE CHOOSE f \in dst[i] : TRUE

Writes == SelectSeq(ops, LAMBDA o : o[1] = "write")

\* C1 (as claimed): after an in-place run, a second in-place run over the
\* same tree with the same flags rewrites no file: it performs no codec write
\* and returns an empty list.
C1_SecondPassRewritesNothing ==
    (inplace /\ pass >= 2) => (Writes = << >> /\ retval = << >>)

\* C2: a NIfTI file is rewritten through the codec if and only if its target
\* dtype differs from the stored one, or a rescale was applied, or deobliquing
\* was triggered, or a form code is not 4, or sform or qform is absent or not
\* close to the new affine; otherwise it is copied verbatim when source and
\* destination differ, and nothing is done when they are the same path.
C2_Criteria ==
    \/ dec.dtype # dec.data_dtype
    \/ dec.differs
    \/ dec.rescale # "none"
    \/ dec.deobliqued
    \/ dec.scode # 4
    \/ dec.qcode # 4
    \/ dec.scode = 0
    \/ dec.sform.rot # dec.affine.rot \/ dec.sform.zoom # dec.affine.zoom
    \/ dec.sform.off # dec.affine.off \/ dec.sform.flip # dec.affine.flip
    \/ dec.qcode = 0
    \/ dec.qform.rot # dec.affine.rot \/ dec.qform.zoom # dec.affine.zoom
    \/ dec.qform.off # dec.affine.off \/ dec.qform.flip # dec.affine.flip

C4_DtypeInvariant ==
    dec.file # 0 =>
        LET o == Out(dec.file)
            inrange == \A i \in DOMAIN dec.indata :
                           /\ dec.indata[i][2] # 0
                           /\ 0 <= dec.indata[i][1]
                           /\ dec.indata[i][1] < 256 * dec.indata[i][2]
        IN  /\ dec.modality = "mask" => o.dtype = "uint8"
            /\ (dec.modality = "dseg" /\ inrange) => o.dtype = "uint8"
            /\ (dec.modality = "dseg" /\ ~inrange) =>
                   /\ o.dtype = IF force_dtype THEN "int16" ELSE dec.data_dtype
                   /\ o.dtype = "uint8" => dec.data_dtype = "uint8"

\* a float32 mask is written as uint8 with force_dtype disabled
C4_Witness ==
    /\ dec.file # 0
    /\ dec.modality = "mask"
    /\ ~force_dtype
    /\ dec.data_dtype = "float32"
    /\ dec.io = "write"
    /\ Out(dec.file).dtype = "uint8"

\* C5 (as claimed): with force_dtype disabled a dseg volume keeps its dtype
\* and is not marked changed on dtype grounds, even if every value lies in
\* [0, 256).
C5_DsegGatedByFlag ==
    (dec.file # 0 /\ ~force_dtype /\ dec.modality = "dseg") =>
        (dec.dtype = dec.data_dtype /\ ~dec.differs)

\* C5 (amended): the 8-bit coercion of dseg is not gated by force_dtype.
\* With force_dtype disabled, mask is targeted at uint8, probseg at float32
\* and a dseg volume whose values all lie in [0, 256) at uint8 (marked changed
\* when its dtype differs); a dseg volume with a value outside [0, 256) and
\* every other modality keep their dtype and are not marked changed on dtype
\* grounds.
C5_DsegNotGated ==
    (dec.file # 0 /\ ~force_dtype) =>
        LET inrange == \A i \in DOMAIN dec.indata :
                           /\ dec.indata[i][2] # 0
                           /\ 0 <= dec.indata[i][1]
                           /\ dec.indata[i][1] < 256 * dec.indata[i][2]
            target == IF dec.modality = "mask" THEN "uint8"
                      ELSE IF dec.modality = "probseg" THEN "float32"
                      ELSE IF dec.modality = "dseg" /\ inrange THEN "uint8"
                      ELSE dec.data_dtype
        IN  /\ dec.dtype = target
            /\ (dec.modality # "probseg") =>
                   (dec.differs <=> target # dec.data_dtype)
            /\ (dec.modality = "dseg" /\ inrange /\ dec.data_dtype # "uint8") =>
                   (dec.io = "write" /\ Out(dec.file).dtype = "uint8")

\* an int16 dseg volume within [0, 256) is rewritten as uint8 with force_dtype
\* disabled
C5_Witness ==
    /\ dec.file # 0
    /\ ~force_dtype
    /\ dec.modality = "dseg"
    /\ dec.data_dtype = "int16"
    /\ dec.dtype = "uint8"
    /\ dec.io = "write"

C7_UnitRange ==
    (dec.file # 0 /\ dec.modality = "probseg") =>
        /\ dec.io = "write"
        /\ Out(dec.file).dtype = "float32"
        /\ DataMin(Out(dec.file).data) = <<0, 1>>
        /\ DataMax(Out(dec.file).data) = <<1, 1>>

C9_OptionsPassedByName ==
    (cmd = "sanitize" /\ pc = "loop") =>
        /\ normalize = opt.normalize
        /\ force_dtype = opt.force_dtype
        /\ deoblique = opt.deoblique

\* C10 (as claimed): the report lists, in processing order, every file that
\* was rewritten or copied, and no file for which no I/O happened.
C10_ReportListsCopies ==
    (pc = "idle" /\ pass >= 1) =>
        report = [k \in DOMAIN ops |-> ops[k][2]]

\* C10 (amended): the report lists, in processing order, exactly the NIfTI
\* files that were rewritten through the codec; a file copied verbatim
\* (NIfTI or not) and a file for which no I/O happened are not listed.
C10_ReportListsRewrites ==
    /\ retval = [k \in DOMAIN Writes |-> Writes[k][2]]
    /\ (pc = "idle" /\ pass >= 1) =>
           /\ report = retval
           /\ \A i \in DOMAIN src :
                  (\E k \in DOMAIN report : report[k] = i) <=>
                      (\E k \in DOMAIN ops : ops[k] = <<"write", i>>)
           /\ \A j, k \in DOMAIN report : j < k => report[j] < report[k]

\* a call returned two rewritten files in order and left out a copied one
C10_Witness ==
    /\ pc = "idle"
    /\ Len(report) = 2
    /\ report[1] < report[2]
    /\ \E k \in DOMAIN ops : ops[k][1] = "copy"

\* the entries of todo the loop has gone through, with a line printed for each
Processed == {out[k][2] : k \in DOMAIN out}

\* C11 (as claimed): when loading, analysing or writing one file of the tree
\* fails, the run is not aborted: every other file of the tree is still
\* processed and its outcome reported.
C11_FailureIsolated ==
    pc = "raised" =>
        \A k \in DOMAIN todo : k # idx => todo[k] \in Processed

\* the name with exactly its NIfTI extension taken off
StripExtension(name) ==
    IF EndsWith(name, DotNiiGz) THEN SubSeq(name, 1, Len(name) - Len(DotNiiGz))
    ELSE SubSeq(name, 1, Len(name) - Len(DotNii))

\* C12 (as claimed): for every file name ending in .nii or .nii.gz, the
\* modality copy_template uses is the final underscore-delimited segment of
\* the name with exactly that extension stripped, case preserved, also when
\* the stem itself contains dots.
C12_ModalityIsFinalSegment ==
    named = "nifti" => suffix = LastSegment(StripExtension(filename))

\* the commands the shell is executing
Executing == {t \in DOMAIN fs : fs[t] = "executing"}

\* at no time are more than max_runners commands executing, and no command
\* is given to the shell twice
RunnersBounded ==
    /\ Cardinality(Executing) <= max_runners
    /\ \A t \in DOMAIN starts : starts[t] <= 1

\* C13 (as claimed): in run_all and upload_all, for any command list and any
\* max_runners >= 1, at no time are more than max_runners shell commands
\* executing, and a command that exits with a non-zero return code releases
\* its slot, so that every command of the list is still started exactly once
\* and the run completes: the run never ends otherwise.
C13_BoundedAndCompletes ==
    /\ RunnersBounded
    /\ running \in {"completed", "raised"} =>
           /\ running = "completed"
           /\ \A t \in DOMAIN starts : starts[t] = 1

\* the lines of the listed files of a listing in the order of the walk, each
\* under the names of the folders that hold it
RECURSIVE TrueLines(_, _)
TrueLines(objs, above) ==
    IF objs = << >> THEN << >>
    ELSE LET obj == Head(objs)
             here == IF IsListed(obj) THEN <<Line(above, obj)>>
                     ELSE IF obj.kind = "folder"
                     THEN TrueLines(obj.sub, Append(above, obj.name))
                     ELSE << >>
         IN  here \o TrueLines(Tail(objs), above)

\* C14 (as claimed): in get_project_urls every emitted name is the true path
\* of the file below the template folder: entering a subfolder leaves the
\* prefix of the enclosing folder unchanged, so a file listed after a sibling
\* subfolder is reported under its own parent folders only.
C14_NamesAreTruePaths ==
    walk = "done" => hits = TrueLines(listing, << >>)
====
